---- MODULE Spec2Model ----
(***************************************************************************)
(* Model of train.py: the command line of main(), the data loaders, the    *)
(* model built by build_model(), the training loop of train() with its     *)
(* periodic validation, and the files written by save_checkpoint().        *)
(*                                                                         *)
(* Tensors are abstracted: the weights and the optimizer state are         *)
(* identified by the number of optimizer steps that produced them, and a   *)
(* validation batch's mean accuracy is a multiple of 1/AccUnits, held as   *)
(* its integer numerator.  Class names are identified by their rank in     *)
(* sorted order.                                                           *)
(***************************************************************************)
EXTENDS Integers, Sequences, FiniteSets, TLC

VARIABLES
    pc,             \* position of main(): parse, mkdir, load, build, train, done, ...
    raised,         \* the exception (or argparse exit) that ended the run, "none" so far
    args,           \* the command line: arch, epochs, model_dir
    dataset,        \* the data directory: classes, trainBatches, validBatches
    dirs,           \* directories that exist
    fs,             \* files that exist: path -> contents
    loaders,        \* <<>> before load_data_folder, then <<its result>>
    model,          \* <<>> before build_model, then <<the model>>
    steps,          \* train(): steps
    e,              \* train(): e, the index of the current epoch (0-based)
    batch,          \* train(): batches of trainloader consumed in the current epoch
    accuracy,       \* train(): accuracy, Unbound until the first validation pass
    best_accuracy,  \* train(): best_accuracy
    accEpoch,       \* history: the epoch (1-based) whose validation pass set accuracy, 0 if none
    valSteps,       \* history: the values of steps after which a validation pass ran
    events          \* history: one record per execution of lines 81-91

vars == <<pc, raised, args, dataset, dirs, fs, loaders, model, steps, e, batch,
          accuracy, best_accuracy, accEpoch, valSteps, events>>

----------------------------------------------------------------------------
(* Bounds of the model *)

MaxEpochs == 3
MaxBatches == 21
MaxValidBatches == 1
MaxClasses == 2
AccUnits == 2

----------------------------------------------------------------------------
(* Constants of the program *)

print_every == 20

NUM_OUTPUTS == 102

DEFAULT_HIDDEN_UNITS == 4096

VALID_ARCH_CHOICES == {"vgg16", "vgg13", "densenet121"}

\* A name of torchvision.models that is not among the choices.
OtherArchs == {"resnet18"}

Cwd == "."

ModelDirs == {Cwd, "models"}

CHECKPOINT_FILE == "checkpoint.pth"

BEST_FILE == "model_best.pth"

\* The local variable accuracy of train() before its first assignment.
Unbound == -1

Max(a, b) == IF a >= b THEN a ELSE b

----------------------------------------------------------------------------
(* Files *)

os_path_join(dir, filename) == <<dir, filename>>

\* A relative file name names a file of the current working directory.
RelativePath(filename) == <<Cwd, filename>>

WriteFile(files, path, contents) ==
    [p \in (DOMAIN files) \cup {path} |-> IF p = path THEN contents ELSE files[p]]

\* A checkpoint.pth left in the working directory by an earlier run.
EarlierCheckpoint ==
    [epoch |-> 1,
     classifier |-> [hidden_units |-> DEFAULT_HIDDEN_UNITS, out_features |-> NUM_OUTPUTS],
     state_dict |-> 0,
     optimizer |-> 0,
     class_idx_mapping |-> [c \in 1..1 |-> c - 1],
     arch |-> "vgg16",
     best_accuracy |-> [num |-> 0, den |-> 1]]

----------------------------------------------------------------------------
(* validation(): the sum over the validation batches of each batch's mean  *)
(* accuracy.  rates[i] is the numerator of batch i's mean over AccUnits.   *)

RECURSIVE SumSeq(_)
SumSeq(s) == IF s = <<>> THEN 0 ELSE Head(s) + SumSeq(Tail(s))

validation(rates) == SumSeq(rates)

----------------------------------------------------------------------------
(* train(): the pieces of the loop *)

ValidationDueOffByOne(s) == s % print_every = 1

ValidationDue(s) == s % print_every = 0

IsBest(acc, best) == acc > best

BestAccuracyLast(acc, best) == acc

BestAccuracy(acc, best) == Max(acc, best)

\* (best_accuracy / len(validloader)) * 100, as an exact fraction
Percent(best, nValid) == [num |-> best * 100, den |-> AccUnits * nValid]

CheckpointStateCompleted(epochs, epochIndex, m, optSteps, arch, best, nValid) ==
    [epoch |-> epochIndex + 1,
     classifier |-> m.classifier,
     state_dict |-> m.weights,
     optimizer |-> optSteps,
     class_idx_mapping |-> m.class_idx_mapping,
     arch |-> arch,
     best_accuracy |-> Percent(best, nValid)]

CheckpointState(epochs, epochIndex, m, optSteps, arch, best, nValid) ==
    [epoch |-> epochs,
     classifier |-> m.classifier,
     state_dict |-> m.weights,
     optimizer |-> optSteps,
     class_idx_mapping |-> m.class_idx_mapping,
     arch |-> arch,
     best_accuracy |-> Percent(best, nValid)]

\* save_checkpoint(): the files afterwards and the exception raised, if any
save_checkpoint(files, existing, state, is_best, model_dir, filename) ==
    LET target == os_path_join(model_dir, filename)
        saved == WriteFile(files, target, state)
        src == RelativePath(filename)
        dst == os_path_join(model_dir, BEST_FILE)
    IN  IF model_dir \notin existing
          THEN [fs |-> files, raised |-> "FileNotFoundError"]
        ELSE IF ~is_best
          THEN [fs |-> saved, raised |-> "none"]
        ELSE IF src \notin DOMAIN saved
          THEN [fs |-> saved, raised |-> "FileNotFoundError"]
        ELSE [fs |-> WriteFile(saved, dst, saved[src]), raised |-> "none"]

----------------------------------------------------------------------------
(* load_data_folder() and build_model() *)

\* ImageFolder.class_to_idx: the sorted class folders numbered from 0
class_to_idx(nClasses) == [c \in 1..nClasses |-> c - 1]

load_data_folder(d) ==
    [trainBatches |-> d.trainBatches,
     validBatches |-> d.validBatches,
     class_idx_mapping |-> class_to_idx(d.classes)]

build_model(arch, hidden_units, class_idx_mapping) ==
    [arch |-> arch,
     classifier |-> [hidden_units |-> hidden_units, out_features |-> NUM_OUTPUTS],
     class_idx_mapping |-> class_idx_mapping,
     weights |-> 0]

----------------------------------------------------------------------------
(* main() *)

ArchAcceptedAny(arch) == TRUE

ArchAccepted(arch) == arch \in VALID_ARCH_CHOICES

Init ==
    /\ pc = "parse"
    /\ raised = "none"
    /\ args \in [arch : VALID_ARCH_CHOICES \cup OtherArchs,
                 epochs : 1..MaxEpochs,
                 model_dir : ModelDirs]
    /\ dataset \in [classes : (1..MaxClasses) \cup {NUM_OUTPUTS},
                    trainBatches : 1..MaxBatches,
                    validBatches : 1..MaxValidBatches]
    /\ dirs = {Cwd}
    /\ fs \in {<<>>, [p \in {RelativePath(CHECKPOINT_FILE)} |-> EarlierCheckpoint]}
    /\ loaders = <<>>
    /\ model = <<>>
    /\ steps = 0
    /\ e = 0
    /\ batch = 0
    /\ accuracy = Unbound
    /\ best_accuracy = 0
    /\ accEpoch = 0
    /\ valSteps = {}
    /\ events = <<>>

trainVars == <<steps, e, batch, accuracy, best_accuracy, accEpoch, valSteps, events>>

\* ap.parse_args(): a value of --arch outside the choices exits with a usage error
ParseArgs ==
    /\ pc = "parse"
    /\ IF ArchAccepted(args.arch)
         THEN pc' = "mkdir" /\ raised' = raised
         ELSE pc' = "usage_error" /\ raised' = "SystemExit"
    /\ UNCHANGED <<args, dataset, dirs, fs, loaders, model, trainVars>>

\* os.system("mkdir -p " + model_dir)
MakeModelDir ==
    /\ pc = "mkdir"
    /\ dirs' = dirs \cup {args.model_dir}
    /\ pc' = "load"
    /\ UNCHANGED <<raised, args, dataset, fs, loaders, model, trainVars>>

LoadData ==
    /\ pc = "load"
    /\ loaders' = <<load_data_folder(dataset)>>
    /\ pc' = "build"
    /\ UNCHANGED <<raised, args, dataset, dirs, fs, model, trainVars>>

\* build_model(), the optimizer, the device, and the entry of train() up to line 44
BuildModel ==
    /\ pc = "build"
    /\ model' = <<build_model(args.arch, DEFAULT_HIDDEN_UNITS, loaders[1].class_idx_mapping)>>
    /\ steps' = 0
    /\ best_accuracy' = 0
    /\ e' = 0
    /\ batch' = 0
    /\ pc' = "train"
    /\ UNCHANGED <<raised, args, dataset, dirs, fs, loaders, accuracy, accEpoch,
                   valSteps, events>>

----------------------------------------------------------------------------
(* train() *)

\* One iteration of the loop over trainloader (lines 48-79), with the
\* validation pass it runs when one is due.
TrainStep ==
    /\ pc = "train"
    /\ e < args.epochs
    /\ batch < loaders[1].trainBatches
    /\ steps' = steps + 1
    /\ batch' = batch + 1
    /\ model' = <<[model[1] EXCEPT !.weights = steps + 1]>>
    /\ IF ValidationDue(steps + 1)
         THEN /\ \E rates \in [1..loaders[1].validBatches -> 0..AccUnits] :
                    accuracy' = validation(rates)
              /\ accEpoch' = e + 1
              /\ valSteps' = valSteps \cup {steps + 1}
         ELSE UNCHANGED <<accuracy, accEpoch, valSteps>>
    /\ UNCHANGED <<pc, raised, args, dataset, dirs, fs, loaders, e, best_accuracy, events>>

\* The end of an epoch (lines 81-91) with the call of save_checkpoint.
EpochEnd ==
    /\ pc = "train"
    /\ e < args.epochs
    /\ batch = loaders[1].trainBatches
    /\ IF accuracy = Unbound
         THEN /\ pc' = "aborted"
              /\ raised' = "UnboundLocalError"
              /\ events' = Append(events,
                     [epoch |-> e + 1, accuracy |-> Unbound, accEpoch |-> accEpoch,
                      is_best |-> FALSE, written |-> <<>>, best |-> <<>>,
                      returned |-> FALSE])
              /\ UNCHANGED <<fs, e, batch, best_accuracy>>
         ELSE LET is_best == IsBest(accuracy, best_accuracy)
                  best == BestAccuracy(accuracy, best_accuracy)
                  state == CheckpointState(args.epochs, e, model[1], steps, args.arch,
                                           best, loaders[1].validBatches)
                  res == save_checkpoint(fs, dirs, state, is_best, args.model_dir,
                                         CHECKPOINT_FILE)
                  target == os_path_join(args.model_dir, CHECKPOINT_FILE)
                  dst == os_path_join(args.model_dir, BEST_FILE)
              IN  /\ best_accuracy' = best
                  /\ fs' = res.fs
                  /\ events' = Append(events,
                         [epoch |-> e + 1, accuracy |-> accuracy, accEpoch |-> accEpoch,
                          is_best |-> is_best,
                          written |-> IF target \in DOMAIN res.fs /\ res.fs[target] = state
                                        THEN <<state>> ELSE <<>>,
                          best |-> IF is_best /\ res.raised = "none"
                                     THEN <<res.fs[dst]>> ELSE <<>>,
                          returned |-> res.raised = "none"])
                  /\ IF res.raised # "none"
                       THEN pc' = "aborted" /\ raised' = res.raised
                                            /\ UNCHANGED <<e, batch>>
                       ELSE /\ e' = e + 1
                            /\ batch' = 0
                            /\ raised' = raised
                            /\ pc' = IF e + 1 = args.epochs THEN "done" ELSE "train"
    /\ UNCHANGED <<args, dataset, dirs, loaders, model, steps, accuracy, accEpoch, valSteps>>

Next ==
    \/ ParseArgs
    \/ MakeModelDir
    \/ LoadData
    \/ BuildModel
    \/ TrainStep
    \/ EpochEnd

Spec == Init /\ [][Next]_vars

----------------------------------------------------------------------------
(* Properties *)

Terminal == {"done", "aborted", "usage_error"}

\* The executions of lines 81-91 in which `accuracy` was bound.
Recorded == {k \in 1..Len(events) : events[k].accuracy # Unbound}

Written(k) == Len(events[k].written) = 1

RECURSIVE MaxOf(_)
MaxOf(S) == IF S = {} THEN 0
            ELSE LET x == CHOOSE y \in S : TRUE
                 IN  Max(x, MaxOf(S \ {x}))

\* The run got through the argument parser.
ArchValid == args.arch \in VALID_ARCH_CHOICES

\* C1: at the end of every epoch, model_best.pth is written if and only if
\* the accuracy recorded for the epoch strictly exceeds every accuracy
\* recorded at the end of the previous epochs (the first epoch has none, so
\* it always writes it, also with accuracy 0).
C1_BestWrittenIffStrictlyBetter ==
    \A k \in Recorded :
        (Len(events[k].best) = 1) <=>
            (\A j \in 1..(k - 1) : events[k].accuracy > events[j].accuracy)

\* C2: a run of E epochs ends having written checkpoint.pth at the end of
\* every epoch 1..E, E writes in all.
C2_CheckpointEveryEpoch ==
    (ArchValid /\ pc \in Terminal) =>
        /\ pc = "done"
        /\ Len(events) = args.epochs
        /\ \A k \in 1..args.epochs : events[k].epoch = k /\ Written(k)

CheckpointFields ==
    {"epoch", "classifier", "state_dict", "optimizer", "class_idx_mapping", "arch",
     "best_accuracy"}

TinyDataset ==
    /\ dataset.classes = 2
    /\ dataset.trainBatches = 1
    /\ dataset.validBatches = 1

\* C3: on a tiny dataset (2 classes, a single training batch) a run of one
\* epoch ends without error and leaves a checkpoint file with all the fields.
C3_TinyRunCompletes ==
    (ArchValid /\ TinyDataset /\ args.epochs = 1 /\ pc \in Terminal) =>
        /\ pc = "done"
        /\ raised = "none"
        /\ os_path_join(args.model_dir, CHECKPOINT_FILE) \in DOMAIN fs
        /\ DOMAIN fs[os_path_join(args.model_dir, CHECKPOINT_FILE)] = CheckpointFields

\* C4: whenever the accuracy compared at the end of an epoch improves on the
\* best so far, model_best.pth holds, once save_checkpoint has returned, the
\* contents of the checkpoint.pth just written, whatever model_dir is.
C4_BestIsThisEpochsCheckpoint ==
    \A k \in 1..Len(events) :
        (events[k].is_best /\ events[k].returned) =>
            events[k].best = events[k].written

\* C5: in every checkpoint written, the class-index mapping has as many
\* entries as the stored classifier head has outputs.
C5_MappingMatchesHead ==
    \A k \in 1..Len(events) :
        Written(k) =>
            Cardinality(DOMAIN events[k].written[1].class_idx_mapping)
                = events[k].written[1].classifier.out_features

\* C6: with an --arch outside the supported names the run ends in a usage
\* error; no data is loaded, no model is built, no step is trained and no
\* checkpoint is written.
C6_InvalidArchFailsFast ==
    (args.arch \notin VALID_ARCH_CHOICES) =>
        /\ pc \in {"parse", "usage_error"}
        /\ loaders = <<>>
        /\ model = <<>>
        /\ steps = 0
        /\ events = <<>>
        /\ (DOMAIN fs) \subseteq {RelativePath(CHECKPOINT_FILE)}

C6_Witness ==
    /\ pc = "usage_error"
    /\ raised = "SystemExit"
    /\ args.arch \in OtherArchs

\* C7: the best_accuracy field of the checkpoint written at the end of epoch
\* k is the maximum of the accuracies recorded at the ends of epochs 1..k, as
\* a percentage between 0 and 100, and it never decreases from one checkpoint
\* to the next.
C7_BestAccuracyIsRunningMax ==
    \A k \in 1..Len(events) :
        Written(k) =>
            LET field == events[k].written[1].best_accuracy
                nValid == dataset.validBatches
            IN  /\ field.den = AccUnits * nValid
                /\ field.num = 100 * MaxOf({events[j].accuracy : j \in 1..k})
                /\ 0 <= field.num /\ field.num <= 100 * field.den
                /\ \A j \in 1..(k - 1) :
                       Written(j) =>
                           events[j].written[1].best_accuracy.num * field.den
                               <= field.num * events[j].written[1].best_accuracy.den

\* A later epoch recorded a lower accuracy than an earlier one, and its
\* checkpoint still carries the earlier, higher one.
C7_Witness ==
    /\ Len(events) >= 3
    /\ Written(3)
    /\ events[1].accuracy < events[2].accuracy
    /\ events[3].accuracy < events[2].accuracy
    /\ events[3].accuracy > 0
    /\ events[3].written[1].best_accuracy.num = 100 * events[2].accuracy

\* C8: the accuracy compared at the end of an epoch is always the one the
\* last validation pass of that same epoch computed, never one of an earlier
\* epoch and never an undefined one.
C8_AccuracyFromSameEpoch ==
    \A k \in 1..Len(events) :
        /\ events[k].accuracy # Unbound
        /\ events[k].accEpoch = events[k].epoch

C10_EpochFieldIsTotal ==
    \A k \in 1..Len(events) :
        Written(k) => events[k].written[1].epoch = args.epochs

C10_Witness ==
    /\ Len(events) >= 1
    /\ Written(1)
    /\ events[1].epoch = 1
    /\ args.epochs = 3
    /\ events[1].written[1].epoch = 3

====
